---- MODULE Spec2Model ----
(***************************************************************************)
(* Model of the pointing-poker room server: the in-memory room store       *)
(* (server/roomStore.ts), the WebSocket hooks that dispatch the protocol   *)
(* messages (server/wsHooks.ts) and the attention-check timers.            *)
(*                                                                         *)
(* One action is one run-to-completion callback of the Node event loop:    *)
(* a hook (open / message / close), a timer callback, or a direct call of  *)
(* an exported store function.  wsHooks.message has no case for the        *)
(* OPEN_VOTING message, so the only caller of openVoting is a direct call  *)
(* (the unit tests call it that way); it is an action of its own.          *)
(*                                                                         *)
(* `sent` holds the messages the running callback has put on each peer's   *)
(* socket and `last` names the callback; when the callback has returned,   *)
(* Idle hands control back to the event loop and clears both.              *)
(***************************************************************************)
EXTENDS Integers, Sequences, FiniteSets, TLC

\* ---- bounds ------------------------------------------------------------
\* Spec, CastSpec and StoreSpec: NumPeers connections, MaxRooms rooms created.
NumPeers == 2
MaxRooms == 1
\* WideSpec: membership only, with more connections and rooms.
WidePeers == 3
WideRooms == 2
MaxResolveTimers == 2
\* nearestFib is applied to the numbers -LowHalves/2 .. MaxHalves/2 in steps
\* of one half, and to the special values of the number type.
LowHalves == 6
MaxHalves == 48

\* ---- value universes ---------------------------------------------------
PeerIds == 1..WidePeers
RoomIds == 1..WideRooms
NoId == 0

Null == "null"
Undefined == "undefined"

CardValues == {"5", "8"}

\* uniqueCode draws a code no live room holds: one code per room that can be live.
CodeList == <<"AB2C", "XY34", "QR7S", "MN89">>
Codes == {CodeList[i] : i \in 1..WideRooms}
CodeInputs == {"", "AB2C", "ab2c", "xy34"}

NameInputs == {"", "  ", " Al "}

Deadline == "now+CHECK_WINDOW_MS"

VARIABLES
  rooms,      \* roomStore: Map roomId -> Room
  peers,      \* roomStore: the registered peers (Map playerId -> send)
  peerRooms,  \* wsHooks: Map peerId -> roomId (NoId: no entry)
  timers,     \* the pending setTimeout callbacks
  nextRoom,   \* the number of rooms created so far, plus one
  closed,     \* the connections that have ended
  calc,       \* votingUtils: the argument of nearestFib and what it returned
  cast,       \* history: per live room and member, the last value cast this round
  track,      \* whether the specification keeps the history `cast`
  scope,      \* how many connections open and how many rooms get created
  sent,       \* the messages the running callback has sent to each peer
  last        \* the running callback, its arguments and its result

vars == <<rooms, peers, peerRooms, timers, nextRoom, closed, calc, cast, track, scope, sent, last>>

ScopePeers == 1..scope.peers
ScopeRooms == 1..scope.rooms
ScopeCodes == {CodeList[i] : i \in 1..scope.rooms}

\* ---- votingUtils: numbers and nearestFib ------------------------------------
\* A number is an IEEE double.  The finite ones that are looked at are the
\* multiples of one half, kept as a count of halves (h = 2n); the others are
\* NaN, the two infinities, and -2^60, a finite value so large that adding a
\* card to it is lost in rounding (doubles near 2^60 are 256 apart).
Finite(h) == [kind |-> "finite", h |-> h]
Special(kind) == [kind |-> kind, h |-> 0]
Numbers ==
  {Finite(h) : h \in -LowHalves..MaxHalves} \cup
  {Special(kind) : kind \in {"NaN", "-Infinity", "Infinity", "-2^60"}}

FIBONACCI == <<1, 2, 3, 5, 8, 13, 21>>

\* fib - n, for a card fib.
Minus(fib, n) ==
  CASE n.kind = "finite" -> Finite(2 * fib - n.h)
    [] n.kind = "-Infinity" -> Special("Infinity")
    [] n.kind = "Infinity" -> Special("-Infinity")
    [] n.kind = "-2^60" -> Special("2^60")
    [] OTHER -> Special("NaN")

\* Math.abs
Abs(x) ==
  CASE x.kind = "finite" -> Finite(IF x.h < 0 THEN -x.h ELSE x.h)
    [] x.kind = "-Infinity" -> Special("Infinity")
    [] x.kind = "-2^60" -> Special("2^60")
    [] OTHER -> x

\* a <= b for two results of Math.abs; a comparison with NaN is false.
Magnitude(x) == CASE x.kind = "finite" -> 0 [] x.kind = "2^60" -> 1 [] OTHER -> 2
LessOrEqual(a, b) ==
  /\ a.kind # "NaN"
  /\ b.kind # "NaN"
  /\ \/ Magnitude(a) < Magnitude(b)
     \/ Magnitude(a) = Magnitude(b) /\ (a.kind = "finite" => a.h <= b.h)

\* FIBONACCI.reduce without an initial value: closest starts as the first
\* card and the callback runs on the cards from the second one on.
RECURSIVE Reduce(_, _, _)
Reduce(closest, i, n) ==
  IF i > Len(FIBONACCI) THEN closest
  ELSE Reduce(IF LessOrEqual(Abs(Minus(FIBONACCI[i], n)), Abs(Minus(closest, n)))
              THEN FIBONACCI[i] ELSE closest,
              i + 1, n)

nearestFib(n) == Reduce(FIBONACCI[1], 2, n)

\* No call of nearestFib has been made.
NoFib == 0
NoCalc == [n |-> Special("NaN"), fib |-> NoFib]

\* ---- string helpers ----------------------------------------------------
toUpperCase(c) ==
  CASE c = "ab2c" -> "AB2C"
    [] c = "xy34" -> "XY34"
    [] OTHER -> c

trim(n) ==
  CASE n = "  " -> ""
    [] n = " Al " -> "Al"
    [] OTHER -> n

\* ---- players of a room: a Map in insertion order -----------------------
PlayerIds(room) == {room.players[i].id : i \in 1..Len(room.players)}

IndexOf(room, id) == CHOOSE i \in 1..Len(room.players) : room.players[i].id = id

GetPlayer(room, id) == room.players[IndexOf(room, id)]

\* Map.set: an existing key keeps its position, a new key goes last.
MapSet(players, player) ==
  IF \E i \in 1..Len(players) : players[i].id = player.id
  THEN [i \in 1..Len(players) |->
          IF players[i].id = player.id THEN player ELSE players[i]]
  ELSE Append(players, player)

RECURSIVE MapDelete(_, _)
MapDelete(players, id) ==
  IF players = <<>> THEN <<>>
  ELSE IF Head(players).id = id THEN MapDelete(Tail(players), id)
  ELSE <<Head(players)>> \o MapDelete(Tail(players), id)

\* ---- the store: rooms, peers, pending timers, messages out --------------
\* A store value st is [rooms, peers, peerRooms, timers, nextRoom, sent]; the
\* functions below map a store value to the store value after the call.
NoSent == [p \in PeerIds |-> <<>>]

Store == [rooms |-> rooms, peers |-> peers, peerRooms |-> peerRooms,
          timers |-> timers, nextRoom |-> nextRoom, sent |-> NoSent]

\* A projection that forgets the revealed flag.
toPlayerDTOAlways(player, revealed) ==
  [id |-> player.id, name |-> player.name, isHost |-> player.isHost,
   isActive |-> player.isActive, hasVoted |-> player.hasVoted,
   vote |-> player.vote]

toPlayerDTO(player, revealed) ==
  [id |-> player.id, name |-> player.name, isHost |-> player.isHost,
   isActive |-> player.isActive, hasVoted |-> player.hasVoted,
   vote |-> IF revealed THEN player.vote ELSE Undefined]

toRoomDTO(room) ==
  [id |-> room.id, code |-> room.code,
   players |-> [i \in 1..Len(room.players) |->
                  toPlayerDTO(room.players[i], room.revealed)],
   votingOpen |-> room.votingOpen, revealed |-> room.revealed,
   hostId |-> room.hostId,
   activeCheck |-> IF room.activeCheck # {} THEN Deadline ELSE Null]

sendTo(st, playerId, msg) ==
  IF playerId \in st.peers
  THEN [st EXCEPT !.sent[playerId] = Append(@, msg)]
  ELSE st

broadcastToRoom(st, roomId, msg, excludeId) ==
  IF roomId \notin DOMAIN st.rooms THEN st
  ELSE [st EXCEPT !.sent =
          [p \in PeerIds |->
             IF /\ p \in PlayerIds(st.rooms[roomId])
                /\ p # excludeId
                /\ p \in st.peers
             THEN Append(st.sent[p], msg)
             ELSE st.sent[p]]]

\* ---- timers --------------------------------------------------------------
\* A pending timer is [id, kind, room]; kind "fire" runs fireAttentionCheck,
\* kind "resolve" runs resolveAttentionCheck.  Handles are opaque: a new one
\* is named by the least number that no pending timer of the same room and
\* kind holds.  The handle of a resolve timer is dropped by the code, so the
\* pending resolve timers of a room are a bag, numbered 1..n.
UsedHandles(ts, roomId, kind) ==
  {t.id : t \in {u \in ts : u.room = roomId /\ u.kind = kind}}

setTimeout(ts, roomId, kind) ==
  CHOOSE n \in 1..(Cardinality(UsedHandles(ts, roomId, kind)) + 1) :
    n \notin UsedHandles(ts, roomId, kind)

clearTimeout(ts, roomId, handle) ==
  {t \in ts : ~(t.room = roomId /\ t.kind = "fire" /\ t.id = handle)}

\* An arming that leaves the previous timer pending.
scheduleAttentionCheckKeep(st, roomId) ==
  IF roomId \notin DOMAIN st.rooms THEN st
  ELSE LET h == setTimeout(st.timers, roomId, "fire")
       IN [st EXCEPT
             !.timers = @ \cup {[id |-> h, kind |-> "fire", room |-> roomId]},
             !.rooms[roomId].attentionCheckTimer = h]

scheduleAttentionCheck(st, roomId) ==
  IF roomId \notin DOMAIN st.rooms THEN st
  ELSE LET room == st.rooms[roomId]
           cleared == IF room.attentionCheckTimer # NoId
                      THEN clearTimeout(st.timers, roomId, room.attentionCheckTimer)
                      ELSE st.timers
           h == setTimeout(cleared, roomId, "fire")
       IN [st EXCEPT
             !.timers = cleared \cup {[id |-> h, kind |-> "fire", room |-> roomId]},
             !.rooms[roomId].attentionCheckTimer = h]

\* ---- room CRUD -----------------------------------------------------------
\* A draw that does not look at the codes in use.
generateCode(rms) == Codes

uniqueCode(rms) == Codes \ {rms[r].code : r \in DOMAIN rms}

createRoom(st, roomId, code, hostId, hostName) ==
  LET host == [id |-> hostId, name |-> hostName, isHost |-> TRUE,
               isActive |-> TRUE, vote |-> Null, hasVoted |-> FALSE]
      room == [id |-> roomId, code |-> code, players |-> <<host>>,
               votingOpen |-> FALSE, revealed |-> FALSE, hostId |-> hostId,
               attentionCheckTimer |-> NoId, activeCheck |-> {}]
      added == [st EXCEPT !.rooms =
                  [r \in DOMAIN st.rooms \cup {roomId} |->
                     IF r = roomId THEN room ELSE st.rooms[r]]]
  IN scheduleAttentionCheck(added, roomId)

getRoomById(rms, roomId) == IF roomId \in DOMAIN rms THEN roomId ELSE NoId

getRoomByCode(rms, code) ==
  IF \E r \in DOMAIN rms : rms[r].code = code
  THEN CHOOSE r \in DOMAIN rms : rms[r].code = code
  ELSE NoId

closeRoom(st, roomId) ==
  IF roomId \notin DOMAIN st.rooms THEN st
  ELSE LET room == st.rooms[roomId]
       IN [st EXCEPT
             !.timers = IF room.attentionCheckTimer # NoId
                        THEN clearTimeout(@, roomId, room.attentionCheckTimer)
                        ELSE @,
             !.rooms = [r \in DOMAIN st.rooms \ {roomId} |-> st.rooms[r]]]

addPlayerToRoom(room, player) ==
  [room EXCEPT !.players = MapSet(@, player)]

\* returns [st, roomClosed]
\* A removePlayerFromRoom that keeps a room whose last player has left.
removePlayerKeepRoom(st, roomId, playerId) ==
  IF roomId \notin DOMAIN st.rooms THEN [st |-> st, roomClosed |-> TRUE]
  ELSE LET removed == [st EXCEPT !.rooms[roomId].players = MapDelete(@, playerId)]
           room == removed.rooms[roomId]
       IN IF Len(room.players) = 0
          THEN [st |-> removed, roomClosed |-> TRUE]
          ELSE IF room.hostId = playerId
          THEN LET newHost == room.players[1]
                   promoted == [removed EXCEPT
                                  !.rooms[roomId].players[1].isHost = TRUE,
                                  !.rooms[roomId].hostId = newHost.id]
               IN [st |-> broadcastToRoom(promoted, roomId,
                             [type |-> "HOST_CHANGED", newHostId |-> newHost.id],
                             NoId),
                   roomClosed |-> FALSE]
          ELSE [st |-> removed, roomClosed |-> FALSE]

\* A removePlayerFromRoom that promotes nobody when the host leaves.
removePlayerNoPromote(st, roomId, playerId) ==
  IF roomId \notin DOMAIN st.rooms THEN [st |-> st, roomClosed |-> TRUE]
  ELSE LET removed == [st EXCEPT !.rooms[roomId].players = MapDelete(@, playerId)]
           room == removed.rooms[roomId]
       IN IF Len(room.players) = 0
          THEN [st |-> closeRoom(removed, roomId), roomClosed |-> TRUE]
          ELSE [st |-> removed, roomClosed |-> FALSE]

removePlayerFromRoom(st, roomId, playerId) ==
  IF roomId \notin DOMAIN st.rooms THEN [st |-> st, roomClosed |-> TRUE]
  ELSE LET removed == [st EXCEPT !.rooms[roomId].players = MapDelete(@, playerId)]
           room == removed.rooms[roomId]
       IN IF Len(room.players) = 0
          THEN [st |-> closeRoom(removed, roomId), roomClosed |-> TRUE]
          ELSE IF room.hostId = playerId
          THEN LET newHost == room.players[1]
                   promoted == [removed EXCEPT
                                  !.rooms[roomId].players[1].isHost = TRUE,
                                  !.rooms[roomId].hostId = newHost.id]
               IN [st |-> broadcastToRoom(promoted, roomId,
                             [type |-> "HOST_CHANGED", newHostId |-> newHost.id],
                             NoId),
                   roomClosed |-> FALSE]
          ELSE [st |-> removed, roomClosed |-> FALSE]

\* ---- the voting round ----------------------------------------------------
\* Each returns [room, ok] (or the room alone where the code returns nothing).
\* An openVoting that forgets the revealed flag.
openVotingAgain(room) ==
  IF room.votingOpen
  THEN [room |-> room, ok |-> FALSE]
  ELSE [room |-> [room EXCEPT !.votingOpen = TRUE], ok |-> TRUE]

openVoting(room) ==
  IF room.votingOpen \/ room.revealed
  THEN [room |-> room, ok |-> FALSE]
  ELSE [room |-> [room EXCEPT !.votingOpen = TRUE], ok |-> TRUE]

\* A castVote that forgets the votingOpen flag.
castVoteAnyPhase(room, playerId, value) ==
  IF playerId \notin PlayerIds(room)
  THEN [room |-> room, ok |-> FALSE]
  ELSE [room |-> [room EXCEPT
                    !.players[IndexOf(room, playerId)].vote = value,
                    !.players[IndexOf(room, playerId)].hasVoted = TRUE],
        ok |-> TRUE]

castVote(room, playerId, value) ==
  IF playerId \notin PlayerIds(room) \/ ~room.votingOpen
  THEN [room |-> room, ok |-> FALSE]
  ELSE [room |-> [room EXCEPT
                    !.players[IndexOf(room, playerId)].vote = value,
                    !.players[IndexOf(room, playerId)].hasVoted = TRUE],
        ok |-> TRUE]

\* A revealVotes that leaves voting open.
revealVotesKeepOpen(room) ==
  [room |-> [room EXCEPT !.revealed = TRUE],
   votes |-> [id \in PlayerIds(room) |-> GetPlayer(room, id).vote]]

\* returns [room, votes]
revealVotes(room) ==
  [room |-> [room EXCEPT !.votingOpen = FALSE, !.revealed = TRUE],
   votes |-> [id \in PlayerIds(room) |-> GetPlayer(room, id).vote]]

\* A resetRound that forgets hasVoted.
resetRoundKeepVoted(room) ==
  [room EXCEPT
     !.votingOpen = FALSE,
     !.revealed = FALSE,
     !.players = [i \in 1..Len(room.players) |->
                    [room.players[i] EXCEPT !.vote = Null]]]

resetRound(room) ==
  [room EXCEPT
     !.votingOpen = FALSE,
     !.revealed = FALSE,
     !.players = [i \in 1..Len(room.players) |->
                    [room.players[i] EXCEPT !.vote = Null, !.hasVoted = FALSE]]]

\* An assignHost that leaves the old host's flag set.
assignHostKeepFlag(room, currentHostId, newHostId) ==
  IF room.hostId # currentHostId THEN [room |-> room, ok |-> FALSE]
  ELSE IF currentHostId \notin PlayerIds(room) \/ newHostId \notin PlayerIds(room)
  THEN [room |-> room, ok |-> FALSE]
  ELSE [room |-> [room EXCEPT
                    !.players[IndexOf(room, newHostId)].isHost = TRUE,
                    !.hostId = newHostId],
        ok |-> TRUE]

assignHost(room, currentHostId, newHostId) ==
  IF room.hostId # currentHostId THEN [room |-> room, ok |-> FALSE]
  ELSE IF currentHostId \notin PlayerIds(room) \/ newHostId \notin PlayerIds(room)
  THEN [room |-> room, ok |-> FALSE]
  ELSE LET demoted == [room EXCEPT !.players[IndexOf(room, currentHostId)].isHost = FALSE]
       IN [room |-> [demoted EXCEPT
                       !.players[IndexOf(room, newHostId)].isHost = TRUE,
                       !.hostId = newHostId],
           ok |-> TRUE]

\* The three phases of a round, read off the flag pair.
Phase(room) ==
  CASE room.votingOpen /\ room.revealed -> "BOTH"
    [] room.votingOpen -> "VOTING"
    [] room.revealed -> "REVEALED"
    [] OTHER -> "LOBBY"

PhaseOf(rms, roomId) == IF roomId \in DOMAIN rms THEN Phase(rms[roomId]) ELSE "none"

\* ---- attention check ----------------------------------------------------
\* activeCheck is {} (null) or a one-element set holding
\* [deadline, respondedIds, targetIds]; targetIds keeps the Set's insertion order.
\* A filter that leaves out the host only.
RECURSIVE FilterTargetsVoted(_, _)
FilterTargetsVoted(players, hostId) ==
  IF players = <<>> THEN <<>>
  ELSE LET rest == FilterTargetsVoted(Tail(players), hostId)
       IN IF Head(players).id # hostId
          THEN <<Head(players).id>> \o rest
          ELSE rest

RECURSIVE FilterTargets(_, _)
FilterTargets(players, hostId) ==
  IF players = <<>> THEN <<>>
  ELSE LET rest == FilterTargets(Tail(players), hostId)
       IN IF Head(players).id # hostId /\ ~Head(players).hasVoted
          THEN <<Head(players).id>> \o rest
          ELSE rest

RECURSIVE SendEach(_, _, _)
SendEach(st, ids, msg) ==
  IF ids = <<>> THEN st
  ELSE SendEach(sendTo(st, Head(ids), msg), Tail(ids), msg)

\* A fire that opens a check whenever voting is open, eligible member or not.
fireAttentionCheckAlways(st, roomId) ==
  IF roomId \notin DOMAIN st.rooms THEN st
  ELSE LET room == st.rooms[roomId]
           targetIds == FilterTargets(room.players, room.hostId)
       IN IF ~room.votingOpen THEN scheduleAttentionCheck(st, roomId)
          ELSE LET opened == [st EXCEPT !.rooms[roomId].activeCheck =
                                {[deadline |-> Deadline, respondedIds |-> {},
                                  targetIds |-> targetIds]}]
                   told == SendEach(opened, targetIds,
                                    [type |-> "ATTENTION_CHECK", deadline |-> Deadline])
               IN [told EXCEPT !.timers = @ \cup
                     {[id |-> setTimeout(told.timers, roomId, "resolve"),
                       kind |-> "resolve", room |-> roomId]}]

fireAttentionCheck(st, roomId) ==
  IF roomId \notin DOMAIN st.rooms THEN st
  ELSE LET room == st.rooms[roomId]
           targetIds == FilterTargets(room.players, room.hostId)
       IN IF ~room.votingOpen THEN scheduleAttentionCheck(st, roomId)
          ELSE IF Len(targetIds) = 0 THEN scheduleAttentionCheck(st, roomId)
          ELSE LET opened == [st EXCEPT !.rooms[roomId].activeCheck =
                                {[deadline |-> Deadline, respondedIds |-> {},
                                  targetIds |-> targetIds]}]
                   told == SendEach(opened, targetIds,
                                    [type |-> "ATTENTION_CHECK", deadline |-> Deadline])
               IN [told EXCEPT !.timers = @ \cup
                     {[id |-> setTimeout(told.timers, roomId, "resolve"),
                       kind |-> "resolve", room |-> roomId]}]

\* A marking that spares the targets that have voted since the fire.
RECURSIVE MarkInactiveUnvoted(_, _, _, _)
MarkInactiveUnvoted(st, roomId, ids, respondedIds) ==
  IF ids = <<>> THEN st
  ELSE LET id == Head(ids)
           room == st.rooms[roomId]
       IN IF id \notin PlayerIds(room) \/ id \in respondedIds \/ GetPlayer(room, id).hasVoted
          THEN MarkInactiveUnvoted(st, roomId, Tail(ids), respondedIds)
          ELSE MarkInactiveUnvoted(
                 broadcastToRoom(
                   [st EXCEPT !.rooms[roomId].players[IndexOf(room, id)].isActive = FALSE],
                   roomId,
                   [type |-> "PLAYER_STATUS", playerId |-> id, isActive |-> FALSE],
                   NoId),
                 roomId, Tail(ids), respondedIds)

RECURSIVE MarkInactive(_, _, _, _)
MarkInactive(st, roomId, ids, respondedIds) ==
  IF ids = <<>> THEN st
  ELSE LET id == Head(ids)
           room == st.rooms[roomId]
       IN IF id \notin PlayerIds(room) \/ id \in respondedIds
          THEN MarkInactive(st, roomId, Tail(ids), respondedIds)
          ELSE MarkInactive(
                 broadcastToRoom(
                   [st EXCEPT !.rooms[roomId].players[IndexOf(room, id)].isActive = FALSE],
                   roomId,
                   [type |-> "PLAYER_STATUS", playerId |-> id, isActive |-> FALSE],
                   NoId),
                 roomId, Tail(ids), respondedIds)

\* A resolution that does not arm the recurring timer again.
resolveAttentionCheckOnce(st, roomId) ==
  IF roomId \notin DOMAIN st.rooms THEN st
  ELSE IF st.rooms[roomId].activeCheck = {} THEN st
  ELSE LET check == CHOOSE c \in st.rooms[roomId].activeCheck : TRUE
           cleared == [st EXCEPT !.rooms[roomId].activeCheck = {}]
       IN MarkInactive(cleared, roomId, check.targetIds, check.respondedIds)

\* A resolution that arms the recurring timer even when the room is gone.
resolveAttentionCheckGone(st, roomId) ==
  IF roomId \notin DOMAIN st.rooms
  THEN [st EXCEPT !.timers = @ \cup
          {[id |-> setTimeout(st.timers, roomId, "fire"), kind |-> "fire",
            room |-> roomId]}]
  ELSE IF st.rooms[roomId].activeCheck = {} THEN st
  ELSE LET check == CHOOSE c \in st.rooms[roomId].activeCheck : TRUE
           cleared == [st EXCEPT !.rooms[roomId].activeCheck = {}]
           marked == MarkInactive(cleared, roomId, check.targetIds, check.respondedIds)
       IN scheduleAttentionCheck(marked, roomId)

resolveAttentionCheck(st, roomId) ==
  IF roomId \notin DOMAIN st.rooms THEN st
  ELSE IF st.rooms[roomId].activeCheck = {} THEN st
  ELSE LET check == CHOOSE c \in st.rooms[roomId].activeCheck : TRUE
           cleared == [st EXCEPT !.rooms[roomId].activeCheck = {}]
           marked == MarkInactive(cleared, roomId, check.targetIds, check.respondedIds)
       IN scheduleAttentionCheck(marked, roomId)

handleCheckIn(room, playerId) ==
  IF room.activeCheck = {} THEN room
  ELSE [room EXCEPT !.activeCheck =
          {[c EXCEPT !.respondedIds = @ \cup {playerId}] : c \in room.activeCheck}]

handleMarkActive(st, roomId, playerId) ==
  LET room == st.rooms[roomId]
  IN IF playerId \notin PlayerIds(room) THEN st
     ELSE broadcastToRoom(
            [st EXCEPT !.rooms[roomId].players[IndexOf(room, playerId)].isActive = TRUE],
            roomId,
            [type |-> "PLAYER_STATUS", playerId |-> playerId, isActive |-> TRUE],
            NoId)

\* ---- wsHooks: one operator per hook, from the store to [st, l] -------------
\* l tells what ran: op, the peer, the room it acted on, whether it went
\* through (ok), and the arguments.
\* was is the phase of that room when the callback started.
NoLast == [op |-> "idle", peer |-> NoId, room |-> NoId, ok |-> TRUE,
           target |-> NoId, value |-> Null, was |-> "none"]

Error(message) == [type |-> "ERROR", message |-> message]

\* The room a bound peer's message acts on: peerRooms.get, then getRoomById.
BoundRoom(st, p) ==
  IF st.peerRooms[p] = NoId THEN NoId ELSE getRoomById(st.rooms, st.peerRooms[p])

onOpen(st, p) ==
  [st |-> [st EXCEPT !.peers = @ \cup {p}],
   l |-> [NoLast EXCEPT !.op = "open", !.peer = p]]

onClose(st, p) ==
  LET roomId == st.peerRooms[p]
      gone == [st EXCEPT !.peers = @ \ {p}, !.peerRooms[p] = NoId]
      l == [NoLast EXCEPT !.op = "close", !.peer = p, !.room = roomId]
  IN IF roomId = NoId THEN [st |-> gone, l |-> l]
     ELSE LET res == removePlayerFromRoom(gone, roomId, p)
          IN IF res.roomClosed THEN [st |-> res.st, l |-> l]
             ELSE [st |-> broadcastToRoom(res.st, roomId,
                            [type |-> "PLAYER_LEFT", playerId |-> p], NoId),
                   l |-> l]

onInvalidJson(st, p) ==
  [st |-> sendTo(st, p, Error("Invalid JSON")),
   l |-> [NoLast EXCEPT !.op = "INVALID_JSON", !.peer = p, !.ok = FALSE]]

\* A resolution that looks at the code before the roomId.
JoinRoomCodeFirst(st, roomId, code) ==
  IF code # "" /\ getRoomByCode(st.rooms, toUpperCase(code)) # NoId
  THEN getRoomByCode(st.rooms, toUpperCase(code))
  ELSE IF roomId # NoId THEN getRoomById(st.rooms, roomId)
  ELSE NoId

\* The room a JOIN resolves to (NoId: none, a room is created).
JoinRoom(st, roomId, code) ==
  IF roomId # NoId THEN getRoomById(st.rooms, roomId)
  ELSE IF code # "" THEN getRoomByCode(st.rooms, toUpperCase(code))
  ELSE NoId

\* newCode is the code uniqueCode draws if a room is created.
onJoin(st, p, name, roomId, code, newCode) ==
  LET found == JoinRoom(st, roomId, code)
      l == [NoLast EXCEPT !.op = "JOIN", !.peer = p]
  IN IF trim(name) = ""
     THEN [st |-> sendTo(st, p, Error("Name is required")), l |-> [l EXCEPT !.ok = FALSE]]
     ELSE IF found = NoId
     THEN LET id == st.nextRoom
              created == createRoom(st, id, newCode, p, trim(name))
              bound == [created EXCEPT !.peerRooms[p] = id, !.nextRoom = id + 1]
          IN [st |-> sendTo(bound, p,
                       [type |-> "ROOM_STATE", room |-> toRoomDTO(bound.rooms[id]),
                        playerId |-> p]),
              l |-> [l EXCEPT !.room = id, !.value = "created"]]
     ELSE LET player == [id |-> p, name |-> trim(name), isHost |-> FALSE,
                         isActive |-> TRUE, vote |-> Null, hasVoted |-> FALSE]
              added == [st EXCEPT !.rooms[found] = addPlayerToRoom(@, player),
                                  !.peerRooms[p] = found]
              replied == sendTo(added, p,
                           [type |-> "ROOM_STATE", room |-> toRoomDTO(added.rooms[found]),
                            playerId |-> p])
          IN [st |-> broadcastToRoom(replied, found,
                       [type |-> "PLAYER_JOINED",
                        player |-> toPlayerDTO(player, added.rooms[found].revealed)],
                       p),
              l |-> [l EXCEPT !.room = found, !.value = "joined"]]

\* A dispatcher that answers an unbound peer with an ERROR.
DroppedWithError(st, l) ==
  [st |-> sendTo(st, l.peer, Error("Not in a room")), l |-> [l EXCEPT !.ok = FALSE]]

\* A message of a peer that is bound to no live room is dropped.
Dropped(st, l) == [st |-> st, l |-> [l EXCEPT !.ok = FALSE]]

\* A VOTE handler that tells the room which card was played.
onVoteWithValue(st, p, value) ==
  LET roomId == BoundRoom(st, p)
      l == [NoLast EXCEPT !.op = "VOTE", !.peer = p, !.room = roomId, !.value = value]
  IN IF roomId = NoId THEN Dropped(st, l)
     ELSE LET res == castVote(st.rooms[roomId], p, value)
          IN IF ~res.ok
             THEN [st |-> sendTo(st, p, Error("Cannot vote right now")),
                   l |-> [l EXCEPT !.ok = FALSE]]
             ELSE [st |-> broadcastToRoom([st EXCEPT !.rooms[roomId] = res.room],
                            roomId,
                            [type |-> "VOTE_CAST", playerId |-> p, value |-> value],
                            NoId),
                   l |-> l]

onVote(st, p, value) ==
  LET roomId == BoundRoom(st, p)
      l == [NoLast EXCEPT !.op = "VOTE", !.peer = p, !.room = roomId, !.value = value]
  IN IF roomId = NoId THEN Dropped(st, l)
     ELSE LET res == castVote(st.rooms[roomId], p, value)
          IN IF ~res.ok
             THEN [st |-> sendTo(st, p, Error("Cannot vote right now")),
                   l |-> [l EXCEPT !.ok = FALSE]]
             ELSE [st |-> broadcastToRoom([st EXCEPT !.rooms[roomId] = res.room],
                            roomId, [type |-> "VOTE_CAST", playerId |-> p], NoId),
                   l |-> l]

\* A REVEAL handler that does not ask who the sender is.
onRevealAnyone(st, p) ==
  LET roomId == BoundRoom(st, p)
      l == [NoLast EXCEPT !.op = "REVEAL", !.peer = p, !.room = roomId]
  IN IF roomId = NoId THEN Dropped(st, l)
     ELSE LET res == revealVotes(st.rooms[roomId])
          IN [st |-> broadcastToRoom([st EXCEPT !.rooms[roomId] = res.room],
                       roomId, [type |-> "VOTES_REVEALED", votes |-> res.votes], NoId),
              l |-> l]

onReveal(st, p) ==
  LET roomId == BoundRoom(st, p)
      l == [NoLast EXCEPT !.op = "REVEAL", !.peer = p, !.room = roomId]
  IN IF roomId = NoId THEN Dropped(st, l)
     ELSE IF st.rooms[roomId].hostId # p
     THEN [st |-> sendTo(st, p, Error("Only the host can reveal votes")),
           l |-> [l EXCEPT !.ok = FALSE]]
     ELSE LET res == revealVotes(st.rooms[roomId])
          IN [st |-> broadcastToRoom([st EXCEPT !.rooms[roomId] = res.room],
                       roomId, [type |-> "VOTES_REVEALED", votes |-> res.votes], NoId),
              l |-> l]

onNewRound(st, p) ==
  LET roomId == BoundRoom(st, p)
      l == [NoLast EXCEPT !.op = "NEW_ROUND", !.peer = p, !.room = roomId]
  IN IF roomId = NoId THEN Dropped(st, l)
     ELSE IF st.rooms[roomId].hostId # p
     THEN [st |-> sendTo(st, p, Error("Only the host can start a new round")),
           l |-> [l EXCEPT !.ok = FALSE]]
     ELSE [st |-> scheduleAttentionCheck(
                    broadcastToRoom([st EXCEPT !.rooms[roomId] = resetRound(@)],
                      roomId, [type |-> "ROUND_RESET"], NoId),
                    roomId),
           l |-> l]

\* An ASSIGN_HOST handler that tells the whole room about a refusal.
onAssignHostLoud(st, p, target) ==
  LET roomId == BoundRoom(st, p)
      l == [NoLast EXCEPT !.op = "ASSIGN_HOST", !.peer = p, !.room = roomId,
                          !.target = target]
  IN IF roomId = NoId THEN Dropped(st, l)
     ELSE LET res == assignHost(st.rooms[roomId], p, target)
          IN IF ~res.ok
             THEN [st |-> broadcastToRoom(st, roomId, Error("Cannot assign host"), NoId),
                   l |-> [l EXCEPT !.ok = FALSE]]
             ELSE [st |-> broadcastToRoom([st EXCEPT !.rooms[roomId] = res.room],
                            roomId, [type |-> "HOST_CHANGED", newHostId |-> target], NoId),
                   l |-> l]

onAssignHost(st, p, target) ==
  LET roomId == BoundRoom(st, p)
      l == [NoLast EXCEPT !.op = "ASSIGN_HOST", !.peer = p, !.room = roomId,
                          !.target = target]
  IN IF roomId = NoId THEN Dropped(st, l)
     ELSE LET res == assignHost(st.rooms[roomId], p, target)
          IN IF ~res.ok
             THEN [st |-> sendTo(st, p, Error("Cannot assign host")),
                   l |-> [l EXCEPT !.ok = FALSE]]
             ELSE [st |-> broadcastToRoom([st EXCEPT !.rooms[roomId] = res.room],
                            roomId, [type |-> "HOST_CHANGED", newHostId |-> target], NoId),
                   l |-> l]

onCheckIn(st, p) ==
  LET roomId == BoundRoom(st, p)
      l == [NoLast EXCEPT !.op = "CHECK_IN", !.peer = p, !.room = roomId]
  IN IF roomId = NoId THEN Dropped(st, l)
     ELSE [st |-> [st EXCEPT !.rooms[roomId] = handleCheckIn(@, p)], l |-> l]

onMarkActive(st, p) ==
  LET roomId == BoundRoom(st, p)
      l == [NoLast EXCEPT !.op = "MARK_ACTIVE", !.peer = p, !.room = roomId]
  IN IF roomId = NoId THEN Dropped(st, l)
     ELSE [st |-> handleMarkActive(st, roomId, p), l |-> l]

\* OPEN_VOTING matches no case of the switch in wsHooks.message: the hook
\* returns without touching the store or sending anything.
onOpenVoting(st, p) ==
  [st |-> st,
   l |-> [NoLast EXCEPT !.op = "OPEN_VOTING", !.peer = p, !.room = BoundRoom(st, p),
                        !.ok = FALSE]]

\* ---- timer callbacks -------------------------------------------------------
onFire(st, t) ==
  LET popped == [st EXCEPT !.timers = @ \ {t}]
      fired == fireAttentionCheck(popped, t.room)
  IN [st |-> fired,
      l |-> [NoLast EXCEPT !.op = "fire", !.room = t.room,
               !.ok = \E u \in fired.timers \ popped.timers : u.kind = "resolve"]]

onResolve(st, t) ==
  [st |-> resolveAttentionCheck([st EXCEPT !.timers = @ \ {t}], t.room),
   l |-> [NoLast EXCEPT !.op = "resolve", !.room = t.room,
            !.ok = (t.room \in DOMAIN st.rooms /\ st.rooms[t.room].activeCheck # {})]]

\* ---- direct calls of the store's exported functions --------------------------
callOpenVoting(st, roomId) ==
  LET res == openVoting(st.rooms[roomId])
  IN [st |-> [st EXCEPT !.rooms[roomId] = res.room],
      l |-> [NoLast EXCEPT !.op = "openVoting", !.room = roomId, !.ok = res.ok]]

\* createRoom(hostId, hostName), with the code uniqueCode draws.
callCreateRoom(st, hostId, newCode) ==
  LET id == st.nextRoom
      created == createRoom(st, id, newCode, hostId, "Al")
  IN [st |-> [created EXCEPT !.nextRoom = id + 1],
      l |-> [NoLast EXCEPT !.op = "createRoom", !.peer = hostId, !.room = id]]

\* addPlayerToRoom(room, makePlayer({id})), as the unit tests add a player.
callAddPlayer(st, roomId, id) ==
  LET player == [id |-> id, name |-> "Al", isHost |-> FALSE, isActive |-> TRUE,
                 vote |-> Null, hasVoted |-> FALSE]
  IN [st |-> [st EXCEPT !.rooms[roomId] = addPlayerToRoom(@, player)],
      l |-> [NoLast EXCEPT !.op = "addPlayerToRoom", !.peer = id, !.room = roomId]]

callRemovePlayer(st, roomId, id) ==
  LET res == removePlayerFromRoom(st, roomId, id)
  IN [st |-> res.st,
      l |-> [NoLast EXCEPT !.op = "removePlayerFromRoom", !.peer = id, !.room = roomId,
                           !.ok = ~res.roomClosed]]

callCastVote(st, roomId, id, value) ==
  LET res == castVote(st.rooms[roomId], id, value)
  IN [st |-> [st EXCEPT !.rooms[roomId] = res.room],
      l |-> [NoLast EXCEPT !.op = "castVote", !.peer = id, !.room = roomId,
                           !.value = value, !.ok = res.ok]]

callRevealVotes(st, roomId) ==
  LET res == revealVotes(st.rooms[roomId])
  IN [st |-> [st EXCEPT !.rooms[roomId] = res.room],
      l |-> [NoLast EXCEPT !.op = "revealVotes", !.room = roomId]]

callResetRound(st, roomId) ==
  [st |-> [st EXCEPT !.rooms[roomId] = resetRound(@)],
   l |-> [NoLast EXCEPT !.op = "resetRound", !.room = roomId]]

callAssignHost(st, roomId, currentHostId, newHostId) ==
  LET res == assignHost(st.rooms[roomId], currentHostId, newHostId)
  IN [st |-> [st EXCEPT !.rooms[roomId] = res.room],
      l |-> [NoLast EXCEPT !.op = "assignHost", !.peer = currentHostId, !.room = roomId,
                           !.target = newHostId, !.ok = res.ok]]

\* ---- history: the last value each member cast in the current round -----------
\* A vote that went through is recorded, a round reset clears the room's
\* record, and only the current members of live rooms are kept.
CastAfter(c, rms, l) ==
  IF ~track THEN c ELSE
  [r \in DOMAIN rms |->
     [p \in PlayerIds(rms[r]) |->
        IF l.room = r /\ l.ok /\ l.op \in {"VOTE", "castVote"} /\ l.peer = p THEN l.value
        ELSE IF l.room = r /\ l.ok /\ l.op \in {"NEW_ROUND", "resetRound"} THEN Null
        ELSE IF r \in DOMAIN c /\ p \in DOMAIN c[r] THEN c[r][p]
        ELSE Null]]

\* ---- initial state -----------------------------------------------------------
Init ==
  /\ rooms = [r \in {} |-> NoId]
  /\ peers = {}
  /\ peerRooms = [p \in PeerIds |-> NoId]
  /\ timers = {}
  /\ nextRoom = 1
  /\ closed = {}
  /\ calc = NoCalc
  /\ cast = [r \in {} |-> NoId]
  /\ track = FALSE
  /\ scope = [peers |-> NumPeers, rooms |-> MaxRooms]
  /\ sent = NoSent
  /\ last = NoLast

\* The event loop runs one callback at a time, to completion; the store
\* after the callback becomes the next state.
Commit(res) ==
  /\ rooms' = res.st.rooms
  /\ peers' = res.st.peers
  /\ peerRooms' = res.st.peerRooms
  /\ timers' = res.st.timers
  /\ nextRoom' = res.st.nextRoom
  /\ sent' = res.st.sent
  /\ last' = [res.l EXCEPT !.was = PhaseOf(rooms, res.l.room)]
  /\ cast' = CastAfter(cast, res.st.rooms, res.l)
  /\ UNCHANGED <<track, scope, calc>>

Run(res) == \E r \in {res} : Commit(r)

\* No callback starts before the running one has returned.
Ready == last = NoLast

\* ---- actions: the hooks ------------------------------------------------------
\* Connection ids are fresh per connection: a peer opens once, closes once.
Open(p) ==
  /\ Ready
  /\ p \notin peers
  /\ p \notin closed
  /\ p \in ScopePeers
  /\ \A q \in PeerIds : q < p => q \in peers \cup closed
  /\ Run(onOpen(Store, p))
  /\ UNCHANGED closed

Close(p) ==
  /\ Ready
  /\ p \in peers
  /\ Run(onClose(Store, p))
  /\ closed' = closed \cup {p}

InvalidJson(p) ==
  /\ Ready
  /\ p \in peers
  /\ Run(onInvalidJson(Store, p))
  /\ UNCHANGED closed

Join(p, name, roomId, code) ==
  /\ Ready
  /\ p \in peers
  /\ IF trim(name) # "" /\ JoinRoom(Store, roomId, code) = NoId
     THEN /\ nextRoom <= scope.rooms
          /\ \E newCode \in uniqueCode(rooms) \cap ScopeCodes :
               Run(onJoin(Store, p, name, roomId, code, newCode))
     ELSE Run(onJoin(Store, p, name, roomId, code, ""))
  /\ UNCHANGED closed

Vote(p, value) ==
  /\ Ready
  /\ p \in peers
  /\ Run(onVote(Store, p, value))
  /\ UNCHANGED closed

Reveal(p) ==
  /\ Ready
  /\ p \in peers
  /\ Run(onReveal(Store, p))
  /\ UNCHANGED closed

NewRound(p) ==
  /\ Ready
  /\ p \in peers
  /\ Run(onNewRound(Store, p))
  /\ UNCHANGED closed

AssignHost(p, target) ==
  /\ Ready
  /\ p \in peers
  /\ Run(onAssignHost(Store, p, target))
  /\ UNCHANGED closed

CheckIn(p) ==
  /\ Ready
  /\ p \in peers
  /\ Run(onCheckIn(Store, p))
  /\ UNCHANGED closed

MarkActive(p) ==
  /\ Ready
  /\ p \in peers
  /\ Run(onMarkActive(Store, p))
  /\ UNCHANGED closed

OpenVotingMsg(p) ==
  /\ Ready
  /\ p \in peers
  /\ Run(onOpenVoting(Store, p))
  /\ UNCHANGED closed

OpenVotingCall(roomId) ==
  /\ Ready
  /\ roomId \in DOMAIN rooms
  /\ Run(callOpenVoting(Store, roomId))
  /\ UNCHANGED closed

\* A fire that would leave more than MaxResolveTimers resolve timers pending
\* for the room is held back.
FireTimer(t) ==
  /\ Ready
  /\ t \in timers
  /\ t.kind = "fire"
  /\ \E res \in {onFire(Store, t)} :
       /\ Cardinality({u \in res.st.timers : u.kind = "resolve" /\ u.room = t.room})
            <= MaxResolveTimers
       /\ Commit(res)
  /\ UNCHANGED closed

\* The pending resolve timers of a room run the same callback: the one
\* numbered last stands for whichever is due.
ResolveTimer(t) ==
  /\ Ready
  /\ t \in timers
  /\ t.kind = "resolve"
  /\ \A u \in timers : (u.kind = "resolve" /\ u.room = t.room) => u.id <= t.id
  /\ Run(onResolve(Store, t))
  /\ UNCHANGED closed

\* The callback has returned: back to the event loop.
Idle ==
  /\ last # NoLast
  /\ last' = NoLast
  /\ sent' = NoSent
  /\ UNCHANGED <<rooms, peers, peerRooms, timers, nextRoom, closed, calc, cast, track, scope>>

\* ---- actions: the store's functions called directly, as its unit tests do ------
CreateRoomCall(hostId) ==
  /\ Ready
  /\ nextRoom <= scope.rooms
  /\ \E newCode \in uniqueCode(rooms) \cap ScopeCodes : Run(callCreateRoom(Store, hostId, newCode))
  /\ UNCHANGED closed

AddPlayerCall(roomId, id) ==
  /\ Ready
  /\ roomId \in DOMAIN rooms
  /\ Run(callAddPlayer(Store, roomId, id))
  /\ UNCHANGED closed

RemovePlayerCall(roomId, id) ==
  /\ Ready
  /\ roomId \in DOMAIN rooms
  /\ Run(callRemovePlayer(Store, roomId, id))
  /\ UNCHANGED closed

CastVoteCall(roomId, id, value) ==
  /\ Ready
  /\ roomId \in DOMAIN rooms
  /\ Run(callCastVote(Store, roomId, id, value))
  /\ UNCHANGED closed

RevealVotesCall(roomId) ==
  /\ Ready
  /\ roomId \in DOMAIN rooms
  /\ Run(callRevealVotes(Store, roomId))
  /\ UNCHANGED closed

ResetRoundCall(roomId) ==
  /\ Ready
  /\ roomId \in DOMAIN rooms
  /\ Run(callResetRound(Store, roomId))
  /\ UNCHANGED closed

AssignHostCall(roomId, currentHostId, newHostId) ==
  /\ Ready
  /\ roomId \in DOMAIN rooms
  /\ Run(callAssignHost(Store, roomId, currentHostId, newHostId))
  /\ UNCHANGED closed

\* ---- specification -----------------------------------------------------------
Next ==
  \/ \E p \in ScopePeers : Open(p)
  \/ \E p \in ScopePeers : Close(p)
  \/ \E p \in ScopePeers : InvalidJson(p)
  \/ \E p \in ScopePeers, name \in NameInputs, roomId \in ScopeRooms \cup {NoId},
        code \in CodeInputs : Join(p, name, roomId, code)
  \/ \E p \in ScopePeers, value \in CardValues : Vote(p, value)
  \/ \E p \in ScopePeers : Reveal(p)
  \/ \E p \in ScopePeers : NewRound(p)
  \/ \E p \in ScopePeers, target \in ScopePeers : AssignHost(p, target)
  \/ \E p \in ScopePeers : CheckIn(p)
  \/ \E p \in ScopePeers : MarkActive(p)
  \/ \E p \in ScopePeers : OpenVotingMsg(p)
  \/ \E roomId \in ScopeRooms : OpenVotingCall(roomId)
  \/ \E t \in timers : FireTimer(t)
  \/ \E t \in timers : ResolveTimer(t)
  \/ Idle

Spec == Init /\ [][Next]_vars

\* The same system, keeping the history of the votes cast in each round.
InitCast ==
  /\ rooms = [r \in {} |-> NoId]
  /\ peers = {}
  /\ peerRooms = [p \in PeerIds |-> NoId]
  /\ timers = {}
  /\ nextRoom = 1
  /\ closed = {}
  /\ calc = NoCalc
  /\ cast = [r \in {} |-> NoId]
  /\ track = TRUE
  /\ scope = [peers |-> NumPeers, rooms |-> MaxRooms]
  /\ sent = NoSent
  /\ last = NoLast

CastSpec == InitCast /\ [][Next]_vars

\* The room store alone, driven through its exported functions with any
\* arguments; the timers it arms are pending and never become due.
StoreNext ==
  \/ \E p \in ScopePeers : Open(p)
  \/ \E hostId \in ScopePeers : CreateRoomCall(hostId)
  \/ \E roomId \in ScopeRooms, id \in ScopePeers : AddPlayerCall(roomId, id)
  \/ \E roomId \in ScopeRooms, id \in ScopePeers : RemovePlayerCall(roomId, id)
  \/ \E roomId \in ScopeRooms : OpenVotingCall(roomId)
  \/ \E roomId \in ScopeRooms, id \in ScopePeers, value \in CardValues :
        CastVoteCall(roomId, id, value)
  \/ \E roomId \in ScopeRooms : RevealVotesCall(roomId)
  \/ \E roomId \in ScopeRooms : ResetRoundCall(roomId)
  \/ \E roomId \in ScopeRooms, currentHostId \in ScopePeers, newHostId \in ScopePeers :
        AssignHostCall(roomId, currentHostId, newHostId)
  \/ Idle

StoreSpec == Init /\ [][StoreNext]_vars

\* Membership alone: connections open and close and peers join, with more
\* connections and rooms; no round is played and the timers the rooms arm
\* are pending and never become due.
InitWide ==
  /\ rooms = [r \in {} |-> NoId]
  /\ peers = {}
  /\ peerRooms = [p \in PeerIds |-> NoId]
  /\ timers = {}
  /\ nextRoom = 1
  /\ closed = {}
  /\ calc = NoCalc
  /\ cast = [r \in {} |-> NoId]
  /\ track = FALSE
  /\ scope = [peers |-> WidePeers, rooms |-> WideRooms]
  /\ sent = NoSent
  /\ last = NoLast

WideNext ==
  \/ \E p \in ScopePeers : Open(p)
  \/ \E p \in ScopePeers : Close(p)
  \/ \E p \in ScopePeers, name \in NameInputs, roomId \in ScopeRooms \cup {NoId},
        code \in CodeInputs : Join(p, name, roomId, code)
  \/ Idle

WideSpec == InitWide /\ [][WideNext]_vars

\* One round with attention checks among three members: peers connect and
\* join, voting is opened, members vote and check in, and the timers fire.
InitCheck ==
  /\ rooms = [r \in {} |-> NoId]
  /\ peers = {}
  /\ peerRooms = [p \in PeerIds |-> NoId]
  /\ timers = {}
  /\ nextRoom = 1
  /\ closed = {}
  /\ calc = NoCalc
  /\ cast = [r \in {} |-> NoId]
  /\ track = FALSE
  /\ scope = [peers |-> WidePeers, rooms |-> MaxRooms]
  /\ sent = NoSent
  /\ last = NoLast

CheckNext ==
  \/ \E p \in ScopePeers : Open(p)
  \/ \E p \in ScopePeers, name \in NameInputs, roomId \in ScopeRooms \cup {NoId},
        code \in CodeInputs : Join(p, name, roomId, code)
  \/ \E roomId \in ScopeRooms : OpenVotingCall(roomId)
  \/ \E p \in ScopePeers, value \in CardValues : Vote(p, value)
  \/ \E p \in ScopePeers : CheckIn(p)
  \/ \E t \in timers : FireTimer(t)
  \/ \E t \in timers : ResolveTimer(t)
  \/ Idle

CheckSpec == InitCheck /\ [][CheckNext]_vars

\* Attention checks in rooms that peers have left behind: connections open
\* and close, peers join one room and then another, voting is opened, and
\* the timers fire.
InitStale ==
  /\ rooms = [r \in {} |-> NoId]
  /\ peers = {}
  /\ peerRooms = [p \in PeerIds |-> NoId]
  /\ timers = {}
  /\ nextRoom = 1
  /\ closed = {}
  /\ calc = NoCalc
  /\ cast = [r \in {} |-> NoId]
  /\ track = FALSE
  /\ scope = [peers |-> NumPeers, rooms |-> WideRooms]
  /\ sent = NoSent
  /\ last = NoLast

StaleNext ==
  \/ \E p \in ScopePeers : Open(p)
  \/ \E p \in ScopePeers : Close(p)
  \/ \E p \in ScopePeers, name \in NameInputs, roomId \in ScopeRooms \cup {NoId},
        code \in CodeInputs : Join(p, name, roomId, code)
  \/ \E roomId \in ScopeRooms : OpenVotingCall(roomId)
  \/ \E p \in ScopePeers : CheckIn(p)
  \/ \E p \in ScopePeers : MarkActive(p)
  \/ \E t \in timers : FireTimer(t)
  \/ \E t \in timers : ResolveTimer(t)
  \/ Idle

StaleSpec == InitStale /\ [][StaleNext]_vars

\* Rounds of voting in which a VOTE may carry any JSON value: the message is
\* parsed, not validated, so value can be a card or null.
VoteInputs == CardValues \cup {Null}

VoteNext ==
  \/ \E p \in ScopePeers : Open(p)
  \/ \E p \in ScopePeers, name \in NameInputs, roomId \in ScopeRooms \cup {NoId},
        code \in CodeInputs : Join(p, name, roomId, code)
  \/ \E roomId \in ScopeRooms : OpenVotingCall(roomId)
  \/ \E p \in ScopePeers, value \in VoteInputs : Vote(p, value)
  \/ \E p \in ScopePeers : Reveal(p)
  \/ \E p \in ScopePeers : NewRound(p)
  \/ Idle

VoteSpec == Init /\ [][VoteNext]_vars

\* nearestFib alone: an argument is drawn and the function is applied to it.
InitFib ==
  /\ rooms = [r \in {} |-> NoId]
  /\ peers = {}
  /\ peerRooms = [p \in PeerIds |-> NoId]
  /\ timers = {}
  /\ nextRoom = 1
  /\ closed = {}
  /\ calc \in {[n |-> n, fib |-> NoFib] : n \in Numbers}
  /\ cast = [r \in {} |-> NoId]
  /\ track = FALSE
  /\ scope = [peers |-> NumPeers, rooms |-> MaxRooms]
  /\ sent = NoSent
  /\ last = NoLast

NearestFibCall ==
  /\ calc.fib = NoFib
  /\ calc' = [calc EXCEPT !.fib = nearestFib(calc.n)]
  /\ UNCHANGED <<rooms, peers, peerRooms, timers, nextRoom, closed, cast, track, scope,
                 sent, last>>

FibNext == NearestFibCall

FibSpec == InitFib /\ [][FibNext]_vars

\* The event loop with fair timers: a callback that has run returns, and a
\* timer of a room that is due again and again is run in the end.
LiveNext ==
  \/ \E p \in ScopePeers : Open(p)
  \/ \E p \in ScopePeers : Close(p)
  \/ \E p \in ScopePeers, name \in NameInputs, roomId \in ScopeRooms \cup {NoId},
        code \in CodeInputs : Join(p, name, roomId, code)
  \/ \E roomId \in ScopeRooms : OpenVotingCall(roomId)
  \/ \E p \in ScopePeers, value \in CardValues : Vote(p, value)
  \/ \E p \in ScopePeers : Reveal(p)
  \/ \E p \in ScopePeers : NewRound(p)
  \/ \E p \in ScopePeers : CheckIn(p)
  \/ \E t \in timers : FireTimer(t)
  \/ \E t \in timers : ResolveTimer(t)
  \/ Idle

FairSpec ==
  /\ Init
  /\ [][LiveNext]_vars
  /\ WF_vars(Idle)
  /\ \A r \in RoomIds : SF_vars(\E t \in timers : t.room = r /\ FireTimer(t))
  /\ \A r \in RoomIds : SF_vars(\E t \in timers : t.room = r /\ ResolveTimer(t))

\* ---- properties ----------------------------------------------------------------
\* How many messages of a type the running callback sent to a peer.
CountOf(p, type) == Cardinality({i \in 1..Len(sent[p]) : sent[p][i].type = type})

Cleared(room) ==
  \A i \in 1..Len(room.players) :
    room.players[i].vote = Null /\ ~room.players[i].hasVoted

\* C1: every live room has exactly one player whose isHost is true, and that
\* player's id is the room's hostId, whatever JOINs, ASSIGN_HOSTs, disconnects
\* and other messages came before.
C1_ExactlyOneHost ==
  \A r \in DOMAIN rooms :
    LET hosts == {i \in 1..Len(rooms[r].players) : rooms[r].players[i].isHost}
    IN /\ Cardinality(hosts) = 1
       /\ \A i \in hosts : rooms[r].players[i].id = rooms[r].hostId

\* C2: a ROOM_STATE or PLAYER_JOINED projection built while the room's revealed
\* flag is false carries no vote value for any player; the vote is present
\* (the player's own vote) only when revealed is true.
C2_ProjectionHidesVotes ==
  \A p \in PeerIds : \A i \in 1..Len(sent[p]) :
    LET m == sent[p][i]
    IN /\ m.type = "ROOM_STATE" =>
            /\ m.room.id \in DOMAIN rooms
            /\ m.room.revealed = rooms[m.room.id].revealed
            /\ Len(m.room.players) = Len(rooms[m.room.id].players)
            /\ \A j \in 1..Len(m.room.players) :
                 m.room.players[j].vote =
                   IF m.room.revealed
                   THEN rooms[m.room.id].players[j].vote
                   ELSE Undefined
       /\ m.type = "PLAYER_JOINED" =>
            m.player.vote =
              IF rooms[last.room].revealed
              THEN GetPlayer(rooms[last.room], m.player.id).vote
              ELSE Undefined

\* A ROOM_STATE goes out for an unrevealed room in which a player holds a vote.
C2_Witness ==
  \E p \in PeerIds : \E i \in 1..Len(sent[p]) :
    /\ sent[p][i].type = "ROOM_STATE"
    /\ ~sent[p][i].room.revealed
    /\ \E j \in 1..Len(sent[p][i].room.players) :
         /\ sent[p][i].room.players[j].hasVoted
         /\ rooms[sent[p][i].room.id].players[j].vote \in CardValues

\* Two runs that differ only in the card values of their VOTE messages are, at
\* any moment before a reveal, in stores that differ only in the votes held in
\* unrevealed rooms.  HiddenVotes(rms) is every way to hold other cards there.
Hidden(room, i) ==
  /\ i <= Len(room.players)
  /\ ~room.revealed
  /\ room.players[i].vote # Null

HiddenVotes(rms) ==
  {g \in [DOMAIN rms -> [ScopePeers -> CardValues \cup {Null}]] :
     \A r \in DOMAIN rms : \A i \in ScopePeers :
       IF Hidden(rms[r], i) THEN g[r][i] \in CardValues
       ELSE IF i <= Len(rms[r].players) THEN g[r][i] = rms[r].players[i].vote
       ELSE g[r][i] = Null}

WithVotes(st, g) ==
  [st EXCEPT !.rooms =
     [r \in DOMAIN st.rooms |->
        [st.rooms[r] EXCEPT !.players =
           [i \in 1..Len(st.rooms[r].players) |->
              [st.rooms[r].players[i] EXCEPT !.vote = g[r][i]]]]]]

\* The store with the cards held in unrevealed rooms blanked out.
Blank(st) ==
  [st EXCEPT !.rooms =
     [r \in DOMAIN st.rooms |->
        [st.rooms[r] EXCEPT !.players =
           [i \in 1..Len(st.rooms[r].players) |->
              IF Hidden(st.rooms[r], i)
              THEN [st.rooms[r].players[i] EXCEPT !.vote = "hidden"]
              ELSE st.rooms[r].players[i]]]]]

\* Both runs send the same messages to every peer, report the same outcome,
\* and end in stores that again differ only in hidden cards.
SameOutcome(a, b) ==
  /\ a.st.sent = b.st.sent
  /\ a.l.ok = b.l.ok
  /\ Blank(a.st) = Blank(b.st)

\* Every callback the event loop can run next, other than a host's REVEAL,
\* has the same outcome on st and on v.
SameStep(st, v) ==
  /\ \A p \in ScopePeers \ st.peers : SameOutcome(onOpen(st, p), onOpen(v, p))
  /\ \A p \in st.peers :
       /\ SameOutcome(onClose(st, p), onClose(v, p))
       /\ SameOutcome(onInvalidJson(st, p), onInvalidJson(v, p))
       /\ \A name \in NameInputs, roomId \in ScopeRooms \cup {NoId}, code \in CodeInputs :
            /\ JoinRoom(st, roomId, code) = JoinRoom(v, roomId, code)
            /\ IF trim(name) # "" /\ JoinRoom(st, roomId, code) = NoId
               THEN st.nextRoom <= scope.rooms =>
                      \A newCode \in uniqueCode(st.rooms) \cap ScopeCodes :
                        SameOutcome(onJoin(st, p, name, roomId, code, newCode),
                                    onJoin(v, p, name, roomId, code, newCode))
               ELSE SameOutcome(onJoin(st, p, name, roomId, code, ""),
                                onJoin(v, p, name, roomId, code, ""))
       /\ \A value \in CardValues, other \in CardValues :
            SameOutcome(onVote(st, p, value), onVote(v, p, other))
       /\ (BoundRoom(st, p) = NoId \/ st.rooms[BoundRoom(st, p)].hostId # p) =>
            SameOutcome(onReveal(st, p), onReveal(v, p))
       /\ SameOutcome(onNewRound(st, p), onNewRound(v, p))
       /\ \A target \in ScopePeers :
            SameOutcome(onAssignHost(st, p, target), onAssignHost(v, p, target))
       /\ SameOutcome(onCheckIn(st, p), onCheckIn(v, p))
       /\ SameOutcome(onMarkActive(st, p), onMarkActive(v, p))
       /\ SameOutcome(onOpenVoting(st, p), onOpenVoting(v, p))
  /\ \A roomId \in DOMAIN st.rooms :
       SameOutcome(callOpenVoting(st, roomId), callOpenVoting(v, roomId))
  /\ \A t \in st.timers :
       IF t.kind = "fire"
       THEN SameOutcome(onFire(st, t), onFire(v, t))
       ELSE SameOutcome(onResolve(st, t), onResolve(v, t))

\* C3: until a reveal, what the server sends does not depend on the cards
\* voted: from stores that differ only in the card values cast, every callback
\* sends the same messages to every peer and leaves stores that again differ
\* only in those values; and a VOTE_CAST carries the voter's playerId only.
C3_VotesStayHidden ==
  /\ Ready => \A g \in HiddenVotes(rooms) : SameStep(Store, WithVotes(Store, g))
  /\ \A p \in PeerIds : \A i \in 1..Len(sent[p]) :
       sent[p][i].type = "VOTE_CAST" => DOMAIN sent[p][i] = {"type", "playerId"}

\* A vote has just been cast and announced to another member of the room.
C3_Witness ==
  /\ last.op = "VOTE"
  /\ last.ok
  /\ last.value \in CardValues
  /\ \E q \in PeerIds \ {last.peer} : CountOf(q, "VOTE_CAST") = 1
  /\ GetPlayer(rooms[last.room], last.peer).vote = last.value

\* C4: the flag pair (votingOpen, revealed) of a room is never (true, true),
\* after any sequence of openVoting, castVote, revealVotes, resetRound,
\* membership changes and timer firings.
C4_NeverOpenAndRevealed ==
  \A r \in DOMAIN rooms : ~(rooms[r].votingOpen /\ rooms[r].revealed)

\* The host has just revealed a room that was in VOTING.
C4_Witness ==
  /\ last.op = "REVEAL"
  /\ last.ok
  /\ last.was = "VOTING"
  /\ rooms[last.room].revealed
  /\ ~rooms[last.room].votingOpen

\* C5: when the host of a room in LOBBY sends OPEN_VOTING, the room is in
\* VOTING afterwards and every member, the host included, has received
\* exactly one VOTING_OPENED.
C5_OpenVotingBroadcast ==
  ( /\ last.op = "OPEN_VOTING"
    /\ last.room \in DOMAIN rooms
    /\ last.was = "LOBBY"
    /\ rooms[last.room].hostId = last.peer )
  => /\ Phase(rooms[last.room]) = "VOTING"
     /\ \A m \in PlayerIds(rooms[last.room]) : CountOf(m, "VOTING_OPENED") = 1

\* C6: a REVEAL the host sends while the room is in LOBBY or REVEALED leaves
\* the room in the phase it was in and broadcasts no VOTES_REVEALED: a room
\* becomes REVEALED only from VOTING.
C6_RevealOnlyFromVoting ==
  ( /\ last.op = "REVEAL"
    /\ last.room \in DOMAIN rooms
    /\ last.was \in {"LOBBY", "REVEALED"}
    /\ rooms[last.room].hostId = last.peer )
  => /\ Phase(rooms[last.room]) = last.was
     /\ \A p \in PeerIds : CountOf(p, "VOTES_REVEALED") = 0

\* C7: openVoting returns true exactly when the room is in LOBBY and then only
\* sets votingOpen; in VOTING or REVEALED it returns false and leaves the room
\* as it was; and a room leaves VOTING or REVEALED for LOBBY only by a round
\* reset, so a second openVoting with no reset in between fails.
C7_OpenVotingOnlyFromLobby ==
  [][ /\ last'.op = "openVoting" =>
           /\ last'.ok <=> (Phase(rooms[last'.room]) = "LOBBY")
           /\ last'.ok =>
                rooms' = [rooms EXCEPT ![last'.room].votingOpen = TRUE]
           /\ ~last'.ok => rooms' = rooms
      /\ \A r \in DOMAIN rooms :
           ( /\ r \in DOMAIN rooms'
             /\ Phase(rooms[r]) # "LOBBY"
             /\ Phase(rooms'[r]) = "LOBBY" )
           => (last'.op = "NEW_ROUND" /\ last'.ok /\ last'.room = r)
    ]_vars

\* openVoting has just failed on a room that was already in VOTING.
C7_Witness ==
  /\ last.op = "openVoting"
  /\ ~last.ok
  /\ last.was = "VOTING"
  /\ Phase(rooms[last.room]) = "VOTING"

C9_ResetRound ==
  /\ \A r \in DOMAIN rooms :
       LET once == resetRound(rooms[r])
       IN /\ Phase(once) = "LOBBY"
          /\ Cleared(once)
          /\ resetRound(once) = once
  /\ (last.op = "NEW_ROUND" /\ last.ok) =>
       /\ Phase(rooms[last.room]) = "LOBBY"
       /\ Cleared(rooms[last.room])

\* The host has just started a new round in a room that was REVEALED.
C9_Witness ==
  /\ last.op = "NEW_ROUND"
  /\ last.ok
  /\ last.was = "REVEALED"
  /\ Phase(rooms[last.room]) = "LOBBY"

\* C10: the votes map broadcast by a reveal from VOTING has exactly the
\* current members as keys, each mapped to the last value that member cast
\* in the round, or null if it cast none.
C10_RevealedVotes ==
  (last.op = "REVEAL" /\ last.ok /\ last.was = "VOTING") =>
    \A p \in PeerIds : \A i \in 1..Len(sent[p]) :
      sent[p][i].type = "VOTES_REVEALED" =>
        /\ DOMAIN sent[p][i].votes = PlayerIds(rooms[last.room])
        /\ \A id \in DOMAIN sent[p][i].votes :
             sent[p][i].votes[id] = cast[last.room][id]

\* The ids of the players of a room whose isHost flag is set.
HostFlags(room) ==
  {room.players[i].id : i \in {j \in 1..Len(room.players) : room.players[j].isHost}}

\* C11: assignHost(room, requesterId, targetId) returns true exactly when
\* requesterId is the room's hostId and targetId is a member; then hostId is
\* targetId and the target is the only player with isHost set; otherwise it
\* returns false and hostId and every isHost flag are as they were.
C11_AssignHost ==
  [][ last'.op = "assignHost" =>
        LET room == rooms[last'.room]
        IN /\ last'.ok <=>
                (room.hostId = last'.peer /\ last'.target \in PlayerIds(room))
           /\ last'.ok =>
                /\ rooms'[last'.room].hostId = last'.target
                /\ HostFlags(rooms'[last'.room]) = {last'.target}
                /\ PlayerIds(rooms'[last'.room]) = PlayerIds(room)
           /\ ~last'.ok =>
                /\ rooms'[last'.room].hostId = room.hostId
                /\ HostFlags(rooms'[last'.room]) = HostFlags(room)
                /\ rooms' = rooms
    ]_vars

\* The host has just handed the room over to another member.
C11_Witness ==
  /\ last.op = "assignHost"
  /\ last.ok
  /\ last.target # last.peer
  /\ rooms[last.room].hostId = last.target
  /\ HostFlags(rooms[last.room]) = {last.target}

\* C12: when the host is removed from a room that has another member, exactly
\* one remaining member becomes host (its isHost set, hostId its id), and
\* every remaining member receives one HOST_CHANGED naming that member.
C12_HostFailover ==
  [][ ( /\ last'.op = "close"
        /\ last'.room \in DOMAIN rooms
        /\ rooms[last'.room].hostId = last'.peer
        /\ last'.peer \in PlayerIds(rooms[last'.room])
        /\ Len(rooms[last'.room].players) >= 2 )
      => /\ last'.room \in DOMAIN rooms'
         /\ LET after == rooms'[last'.room]
            IN /\ after.hostId \in PlayerIds(after)
               /\ HostFlags(after) = {after.hostId}
               /\ \A m \in PlayerIds(after) :
                    \E i \in 1..Len(sent'[m]) :
                      /\ sent'[m][i] = [type |-> "HOST_CHANGED",
                                        newHostId |-> after.hostId]
                      /\ \A j \in 1..Len(sent'[m]) :
                           sent'[m][j].type = "HOST_CHANGED" => j = i
    ]_vars

\* C13: every room in the registry has at least one player: the step that
\* removes a room's last player removes the room too.
C13_NoEmptyRoom ==
  \A r \in DOMAIN rooms : Len(rooms[r].players) >= 1

\* The last player of a room has just disconnected and the room is gone.
C13_Witness ==
  /\ last.op = "close"
  /\ last.room # NoId
  /\ last.room \notin DOMAIN rooms

\* C14: the hostId of every live room is the id of a player in that room.
C14_HostIsMember ==
  \A r \in DOMAIN rooms : rooms[r].hostId \in PlayerIds(rooms[r])

\* The host has just disconnected and another member has taken over.
C14_Witness ==
  /\ last.op = "close"
  /\ last.room \in DOMAIN rooms
  /\ rooms[last.room].hostId # last.peer
  /\ rooms[last.room].hostId \in PlayerIds(rooms[last.room])
  /\ CountOf(rooms[last.room].hostId, "HOST_CHANGED") = 1

\* C15: a peer is bound to at most one room: no peer id is a member of more
\* than one live room, also after it has sent JOIN more than once.
C15_OneRoomPerPeer ==
  \A p \in PeerIds :
    Cardinality({r \in DOMAIN rooms : p \in PlayerIds(rooms[r])}) <= 1

\* What a round consists of: the flag pair, the host, and each player's vote.
RoundOf(room) ==
  [votingOpen |-> room.votingOpen, revealed |-> room.revealed,
   hostId |-> room.hostId,
   votes |-> [i \in 1..Len(room.players) |->
                [id |-> room.players[i].id, vote |-> room.players[i].vote,
                 hasVoted |-> room.players[i].hasVoted]]]

\* C16: a REVEAL, NEW_ROUND or ASSIGN_HOST sent by a member who is not the
\* room's host leaves votingOpen, revealed, every player's vote and hasVoted
\* and hostId as they were, and the sender receives an ERROR.
C16_HostOnly ==
  [][ ( /\ last'.op \in {"REVEAL", "NEW_ROUND", "ASSIGN_HOST"}
        /\ last'.room \in DOMAIN rooms
        /\ last'.peer \in PlayerIds(rooms[last'.room])
        /\ rooms[last'.room].hostId # last'.peer )
      => /\ last'.room \in DOMAIN rooms'
         /\ RoundOf(rooms'[last'.room]) = RoundOf(rooms[last'.room])
         /\ Len(sent'[last'.peer]) = 1
         /\ sent'[last'.peer][1].type = "ERROR"
    ]_vars

\* A member who is not the host has just asked to reveal a room in VOTING.
C16_Witness ==
  /\ last.op = "REVEAL"
  /\ ~last.ok
  /\ last.room \in DOMAIN rooms
  /\ last.was = "VOTING"
  /\ last.peer \in PlayerIds(rooms[last.room])
  /\ rooms[last.room].hostId # last.peer
  /\ CountOf(last.peer, "ERROR") = 1

\* The callback that has just run (last') was given a message the server
\* rejects: unparsable text, a JOIN without a name, a VOTE outside VOTING, a
\* host-only request of a member that is not the host, or an ASSIGN_HOST that
\* names a non-member.
Rejected ==
  \/ last'.op = "INVALID_JSON"
  \/ last'.op = "JOIN" /\ ~last'.ok
  \/ /\ last'.room \in DOMAIN rooms
     /\ \/ last'.op = "VOTE" /\ Phase(rooms[last'.room]) # "VOTING"
        \/ /\ last'.op \in {"REVEAL", "NEW_ROUND", "ASSIGN_HOST"}
           /\ rooms[last'.room].hostId # last'.peer
        \/ /\ last'.op = "ASSIGN_HOST"
           /\ last'.target \notin PlayerIds(rooms[last'.room])

C18_OpenVotingRefused ==
  ( /\ last.op = "OPEN_VOTING"
    /\ last.room \in DOMAIN rooms
    /\ last.peer \in PlayerIds(rooms[last.room])
    /\ \/ rooms[last.room].hostId # last.peer
       \/ last.was \in {"VOTING", "REVEALED"} )
  => /\ Phase(rooms[last.room]) = last.was
     /\ CountOf(last.peer, "ERROR") = 1

\* C19: a well-formed message other than JOIN from a peer that is bound to no
\* live room (it never joined, or its room is gone) is dropped: nothing is
\* sent to any peer and no state changes.
C19_UnboundDropped ==
  [][ ( /\ last'.op \in {"VOTE", "REVEAL", "NEW_ROUND", "ASSIGN_HOST",
                         "CHECK_IN", "MARK_ACTIVE", "OPEN_VOTING"}
        /\ peerRooms[last'.peer] \notin DOMAIN rooms )
      => /\ sent' = NoSent
         /\ UNCHANGED <<rooms, peers, peerRooms, timers, nextRoom>>
    ]_vars

\* A connected peer that has joined no room has just sent a VOTE while a
\* room is live.
C19_Witness ==
  /\ last.op = "VOTE"
  /\ last.peer \in peers
  /\ peerRooms[last.peer] = NoId
  /\ DOMAIN rooms # {}
  /\ sent = NoSent

\* The live rooms whose code a JOIN's code names.
CodeMatches(code) ==
  {r \in DOMAIN rooms : code # "" /\ rooms[r].code = toUpperCase(code)}

\* After the JOIN, p is a player of room r and bound to it, and no room
\* was created.
Attached(res, p, r) ==
  /\ DOMAIN res.st.rooms = DOMAIN rooms
  /\ p \in PlayerIds(res.st.rooms[r])
  /\ res.st.peerRooms[p] = r
  /\ res.l.room = r

\* After the JOIN, a new room exists, in LOBBY, with p as its only player and
\* its host, and p is bound to it.
CreatedFor(res, p) ==
  /\ res.l.room \notin DOMAIN rooms
  /\ DOMAIN res.st.rooms = DOMAIN rooms \cup {res.l.room}
  /\ Phase(res.st.rooms[res.l.room]) = "LOBBY"
  /\ PlayerIds(res.st.rooms[res.l.room]) = {p}
  /\ HostFlags(res.st.rooms[res.l.room]) = {p}
  /\ res.st.rooms[res.l.room].hostId = p
  /\ res.st.peerRooms[p] = res.l.room

\* C20: a JOIN with a roomId naming a live room attaches the joiner to that
\* room whatever code it gives; with no roomId and a code matching a live
\* room it attaches the joiner to that room; with neither, or with a code
\* that matches no live room, it creates a room in LOBBY with the joiner as
\* its only player and host.
C20_JoinResolution ==
  Ready =>
    \A p \in peers, name \in {n \in NameInputs : trim(n) # ""},
       roomId \in ScopeRooms \cup {NoId}, code \in CodeInputs :
      /\ roomId \in DOMAIN rooms =>
           Attached(onJoin(Store, p, name, roomId, code, ""), p, roomId)
      /\ (roomId = NoId /\ CodeMatches(code) # {}) =>
           \A r \in CodeMatches(code) :
             Attached(onJoin(Store, p, name, roomId, code, ""), p, r)
      /\ (roomId = NoId /\ CodeMatches(code) = {} /\ nextRoom <= scope.rooms) =>
           \A newCode \in uniqueCode(rooms) \cap ScopeCodes :
             CreatedFor(onJoin(Store, p, name, roomId, code, newCode), p)

\* A JOIN has just created a second room while the first is live.
C20_Witness ==
  /\ last.op = "JOIN"
  /\ last.value = "created"
  /\ last.room \in DOMAIN rooms
  /\ DOMAIN rooms # {last.room}
  /\ PlayerIds(rooms[last.room]) = {last.peer}
  /\ rooms[last.room].hostId = last.peer
  /\ peerRooms[last.peer] = last.room

\* C21: after a JOIN that attaches the sender to an existing room, the joiner
\* has received exactly one ROOM_STATE, with playerId its own id and a room
\* projection that lists the joiner, and no PLAYER_JOINED; every other member
\* of the room has received exactly one PLAYER_JOINED, for the joiner.
C21_JoinMessages ==
  (last.op = "JOIN" /\ last.value = "joined") =>
    LET room == rooms[last.room]
        mine == sent[last.peer]
    IN /\ CountOf(last.peer, "ROOM_STATE") = 1
       /\ CountOf(last.peer, "PLAYER_JOINED") = 0
       /\ \A i \in 1..Len(mine) :
            mine[i].type = "ROOM_STATE" =>
              /\ mine[i].playerId = last.peer
              /\ \E j \in 1..Len(mine[i].room.players) :
                   mine[i].room.players[j].id = last.peer
       /\ \A m \in PlayerIds(room) \ {last.peer} :
            /\ CountOf(m, "PLAYER_JOINED") = 1
            /\ \A i \in 1..Len(sent[m]) :
                 sent[m][i].type = "PLAYER_JOINED" => sent[m][i].player.id = last.peer

\* The ids of the open attention check of a room ({} when none is open).
TargetsOf(room) == UNION {{c.targetIds[i] : i \in 1..Len(c.targetIds)} : c \in room.activeCheck}

\* C22: a player whose hasVoted is true when an attention check fires is not
\* in the targetIds of the check that is opened and receives no
\* ATTENTION_CHECK; the targetIds of an open check stay as the fire set them;
\* and the resolution of a check sets isActive to false only for players in
\* its targetIds, so that player stays active even without a CHECK_IN.
C22_VotersNotTargeted ==
  [][ /\ (last'.op = "fire" /\ last'.ok) =>
           \A i \in 1..Len(rooms[last'.room].players) :
             LET player == rooms[last'.room].players[i]
             IN player.hasVoted =>
                  /\ player.id \notin TargetsOf(rooms'[last'.room])
                  /\ \A k \in 1..Len(sent'[player.id]) :
                       sent'[player.id][k].type # "ATTENTION_CHECK"
      /\ \A r \in DOMAIN rooms \cap DOMAIN rooms' :
           ( /\ rooms[r].activeCheck # {}
             /\ rooms'[r].activeCheck # {}
             /\ last'.op # "fire" )
           => TargetsOf(rooms'[r]) = TargetsOf(rooms[r])
      /\ (last'.op = "resolve" /\ last'.ok) =>
           \A i \in 1..Len(rooms[last'.room].players) :
             LET player == rooms[last'.room].players[i]
             IN ( /\ player.id \notin TargetsOf(rooms[last'.room])
                  /\ player.id \in PlayerIds(rooms'[last'.room]) )
                => GetPlayer(rooms'[last'.room], player.id).isActive = player.isActive
    ]_vars

\* A check has just been opened in a room where a member that is not the host
\* had voted: that member is not a target and was sent nothing.
C22_Witness ==
  /\ last.op = "fire"
  /\ last.ok
  /\ \E i \in 1..Len(rooms[last.room].players) :
       LET player == rooms[last.room].players[i]
       IN /\ player.hasVoted
          /\ player.id # rooms[last.room].hostId
          /\ player.id \in peers
          /\ player.id \notin TargetsOf(rooms[last.room])
          /\ sent[player.id] = <<>>

\* The members of a room that an attention check may target: not the host,
\* and not yet voted.
Eligible(room) ==
  {room.players[i].id : i \in {j \in 1..Len(room.players) :
      room.players[j].id # room.hostId /\ ~room.players[j].hasVoted}}

\* C23: when the recurring timer fires in a room that is in VOTING and has an
\* eligible member, a check with empty respondedIds is opened whose targetIds
\* are exactly the members that are not the host and have not voted, and
\* exactly those players receive one ATTENTION_CHECK; the host receives none.
C23_FireOpensCheck ==
  ( /\ last.op = "fire"
    /\ last.room \in DOMAIN rooms
    /\ rooms[last.room].votingOpen
    /\ Eligible(rooms[last.room]) # {} )
  => LET room == rooms[last.room]
     IN /\ room.activeCheck # {}
        /\ \A c \in room.activeCheck : c.respondedIds = {}
        /\ TargetsOf(room) = Eligible(room)
        /\ \A p \in PeerIds :
             CountOf(p, "ATTENTION_CHECK") = IF p \in Eligible(room) THEN 1 ELSE 0
        /\ CountOf(room.hostId, "ATTENTION_CHECK") = 0

Missed(room) ==
  {id \in TargetsOf(room) \cap PlayerIds(room) :
     \A c \in room.activeCheck : id \notin c.respondedIds}

\* The PLAYER_STATUS messages in a sequence of messages.
StatusIn(msgs) == {i \in 1..Len(msgs) : msgs[i].type = "PLAYER_STATUS"}

\* C25: when an open check is resolved, the players whose isActive is set to
\* false are exactly the targets that are still in the room and are not in
\* respondedIds; every member of the room receives one PLAYER_STATUS
\* {playerId, isActive: false} for each of them and no other; every other
\* player, a target that checked in included, keeps its isActive.
C25_ResolveMarksMissed ==
  [][ (last'.op = "resolve" /\ last'.ok) =>
        LET room == rooms[last'.room]
            after == rooms'[last'.room]
        IN /\ PlayerIds(after) = PlayerIds(room)
           /\ \A id \in PlayerIds(room) :
                GetPlayer(after, id).isActive =
                  IF id \in Missed(room) THEN FALSE ELSE GetPlayer(room, id).isActive
           /\ \A m \in PlayerIds(room) :
                /\ Cardinality(StatusIn(sent'[m])) = Cardinality(Missed(room))
                /\ {sent'[m][i] : i \in StatusIn(sent'[m])} =
                     {[type |-> "PLAYER_STATUS", playerId |-> id, isActive |-> FALSE] :
                        id \in Missed(room)}
    ]_vars

\* C26: a room has an open attention check only while it is in VOTING: after
\* a REVEAL or a NEW_ROUND no check remains open.
C26_CheckOnlyInVoting ==
  \A r \in DOMAIN rooms :
    rooms[r].activeCheck # {} => Phase(rooms[r]) = "VOTING"

\* C27: while a check is open its respondedIds are a subset of its targetIds,
\* whichever members sent CHECK_IN.
C27_RespondedAreTargets ==
  \A r \in DOMAIN rooms :
    \A c \in rooms[r].activeCheck :
      c.respondedIds \subseteq {c.targetIds[i] : i \in 1..Len(c.targetIds)}

\* C28: a MARK_ACTIVE from a member of a room, in any phase, sets that
\* member's isActive to true, changes no other player, and every member of
\* the room, the sender included, receives PLAYER_STATUS {playerId, isActive:
\* true} for the sender.
C28_MarkActive ==
  [][ ( /\ last'.op = "MARK_ACTIVE"
        /\ last'.room \in DOMAIN rooms
        /\ last'.peer \in PlayerIds(rooms[last'.room]) )
      => LET room == rooms[last'.room]
         IN /\ rooms' = [rooms EXCEPT
                           ![last'.room].players[IndexOf(room, last'.peer)].isActive = TRUE]
            /\ \A m \in PlayerIds(room) :
                 sent'[m] = <<[type |-> "PLAYER_STATUS", playerId |-> last'.peer,
                               isActive |-> TRUE]>>
    ]_vars

\* C29: closing a room cancels every timer that is pending for it, the
\* recurring one and the resolution ones: no pending timer names a room that
\* has been removed.
C29_NoTimerOfClosedRoom ==
  \A t \in timers : t.room \in DOMAIN rooms

\* The pending recurring timers of a room.
Recurring(roomId) == {t \in timers : t.kind = "fire" /\ t.room = roomId}

\* The callback that has just run armed the recurring timer of its room: the
\* room was created, a fire was skipped, a check was resolved, or a NEW_ROUND
\* went through.
Armed ==
  /\ last.room \in DOMAIN rooms
  /\ \/ last.op = "JOIN" /\ last.value = "created"
     \/ last.op = "fire" /\ ~last.ok
     \/ last.op = "resolve" /\ last.ok
     \/ last.op = "NEW_ROUND" /\ last.ok

\* C30: every live room has at most one pending recurring timer, the one its
\* attentionCheckTimer names; each arming (room creation, a skipped fire, a
\* resolution, a NEW_ROUND) cancels the previous one first and leaves exactly
\* one pending.
C30_OneRecurringTimer ==
  /\ \A r \in DOMAIN rooms :
       /\ Cardinality(Recurring(r)) <= 1
       /\ \A t \in Recurring(r) : t.id = rooms[r].attentionCheckTimer
  /\ Armed => Cardinality(Recurring(last.room)) = 1

\* The host has just started a new round in a room whose recurring timer has
\* not fired since the room was created: the old timer is gone, one is pending.
C30_Witness ==
  /\ last.op = "NEW_ROUND"
  /\ last.ok
  /\ last.room \in DOMAIN rooms
  /\ rooms[last.room].activeCheck = {}
  /\ \A t \in timers : t.kind = "fire"
  /\ Cardinality(Recurring(last.room)) = 1

\* C31: no two live rooms have the same code; a room that is created gets a
\* code that no room live at that moment holds.
C31_CodesUnique ==
  \A r1 \in DOMAIN rooms : \A r2 \in DOMAIN rooms :
    rooms[r1].code = rooms[r2].code => r1 = r2

\* A room has just been created while another room is live.
C31_Witness ==
  /\ last.op = "JOIN"
  /\ last.value = "created"
  /\ \E r \in DOMAIN rooms : r # last.room /\ rooms[r].code # rooms[last.room].code

\* The players of a room without one of them, in the order they had.
Without(room, id) ==
  LET Keep(player) == player.id # id IN SelectSeq(room.players, Keep)

\* C32: when a member that is not the host disconnects from a room that keeps
\* other members, the member is removed, hostId and every remaining player
\* are unchanged, each remaining member receives exactly one PLAYER_LEFT with
\* the leaver's id and nothing else, and nobody receives HOST_CHANGED.
C32_MemberLeaves ==
  [][ ( /\ last'.op = "close"
        /\ last'.room \in DOMAIN rooms
        /\ last'.peer \in PlayerIds(rooms[last'.room])
        /\ rooms[last'.room].hostId # last'.peer
        /\ Len(rooms[last'.room].players) > 1 )
      => /\ rooms' = [rooms EXCEPT ![last'.room].players = Without(rooms[last'.room], last'.peer)]
         /\ \A m \in PlayerIds(rooms[last'.room]) \ {last'.peer} :
              sent'[m] = <<[type |-> "PLAYER_LEFT", playerId |-> last'.peer]>>
         /\ \A p \in PeerIds : \A i \in 1..Len(sent'[p]) : sent'[p][i].type # "HOST_CHANGED"
    ]_vars

\* The cards of the deck.
Cards == {FIBONACCI[i] : i \in 1..Len(FIBONACCI)}

\* Twice the distance between a card and the finite number of h halves.
Distance(card, h) == IF 2 * card >= h THEN 2 * card - h ELSE h - 2 * card

C34_TimerOfDestroyedRoom ==
  [][ ( /\ last'.op \in {"fire", "resolve"}
        /\ last'.room \notin DOMAIN rooms )
      => /\ rooms' = rooms
         /\ peers' = peers
         /\ peerRooms' = peerRooms
         /\ \A p \in PeerIds : sent'[p] = <<>>
         /\ \E t \in timers : t.room = last'.room /\ timers' = timers \ {t}
    ]_vars

\* The resolution timer of a room that both members have left has just run.
C34_Witness ==
  /\ last.op = "resolve"
  /\ last.room \notin DOMAIN rooms
  /\ rooms = [r \in {} |-> NoId]
  /\ peers = {}

Resolving(roomId) == {t \in timers : t.kind = "resolve" /\ t.room = roomId}

\* The scheduler of a live room is running: its recurring timer is pending,
\* or a check is open and a resolution timer is pending.
Scheduled(r) ==
  \/ Recurring(r) # {}
  \/ rooms[r].activeCheck # {} /\ Resolving(r) # {}

C37_NoOverlap ==
  /\ [][ (last'.op = "fire" /\ last'.room \in DOMAIN rooms) =>
           rooms[last'.room].activeCheck = {} ]_vars
  /\ [](\A r \in DOMAIN rooms :
          Cardinality(Resolving(r)) = IF rooms[r].activeCheck = {} THEN 0 ELSE 1)

\* C38: no resolution sets isActive to false on the player that is the host
\* of the room when the resolution runs, a target that became host since the
\* fire (by ASSIGN_HOST or by the host's disconnect) included.
C38_HostNotPenalized ==
  [][ ( /\ last'.op = "resolve"
        /\ last'.ok
        /\ rooms[last'.room].hostId \in PlayerIds(rooms[last'.room]) )
      => LET hostId == rooms[last'.room].hostId
         IN GetPlayer(rooms'[last'.room], hostId).isActive =
              GetPlayer(rooms[last'.room], hostId).isActive
    ]_vars

\* C39: membership follows the peer-to-room index: every player of a live
\* room is a connected peer that is bound to that room, so a peer whose
\* disconnect has been processed is a member of no live room and a room all
\* of whose members have disconnected does not exist.
C39_MembersAreBound ==
  \A r \in DOMAIN rooms :
    \A id \in PlayerIds(rooms[r]) : id \in peers /\ peerRooms[id] = r

\* C40: every player has hasVoted exactly when its vote is not null, and in
\* a room that is in LOBBY every player has a null vote and hasVoted false.
C40_VoteFlags ==
  \A r \in DOMAIN rooms :
    \A i \in 1..Len(rooms[r].players) :
      LET player == rooms[r].players[i]
      IN /\ player.hasVoted <=> player.vote # Null
         /\ Phase(rooms[r]) = "LOBBY" => player.vote = Null /\ ~player.hasVoted

====
